---- MODULE Spec2Model ----
(***************************************************************************)
(* A model of the copilot-api gateway: the admission controller            *)
(* (src/lib/rate-limit.ts), the request dispatcher (routes/chat-           *)
(* completions/handler.ts, services/copilot/create-chat-completions.ts,    *)
(* lib/error.ts), the token store (lib/api-tokens.ts) and the fetch of the *)
(* Copilot bearer (services/github, getCopilotToken), the payload of a     *)
(* chat-completions request on its way upstream, the streaming response on *)
(* its way through the node:http server (start.ts), and the translation of *)
(* streams and of assistant messages between the two dialects.             *)
(*                                                                         *)
(* Time is Date.now() in milliseconds.  A timer set by sleep() fires at    *)
(* its deadline: the clock does not pass a pending deadline.               *)
(***************************************************************************)
EXTENDS Integers, Sequences, FiniteSets, TLC

\* ---------------------------------------------------------------- bounds
NumCallers == 2
MaxTime == 3500
MaxRateLimitSeconds == 2
NumRequests == 2
MaxTokenTime == 361000
MaxUsageCount == 3
MaxExpiryTicks == 3
MaxRefreshCalls == 3
MaxMessages == 2
MaxEvents == 4
MaxBlockIndex == 2
MaxChunks == 4
MaxParts == 3
NumApiKeys == 2
MaxAuthTime == 91000
MaxRecorded == 3
NumHandlers == 2

\* ------------------------------------------------------ program constants
MsPerSecond == 1000

\* The clock advances in quarter seconds.
TickMs == MsPerSecond \div 4

\* ApiTokenManager.needsRefresh: 60 * 1000
RefreshMarginMs == 60 * 1000

\* ApiTokenManager.cacheTimeout: 5 * 60 * 1000
CacheTimeoutMs == 5 * 60 * 1000

\* In the token specifications the clock advances in half refresh margins.
TokenTickMs == RefreshMarginMs \div 2

Callers == 1..NumCallers

VARIABLES
  now,                   \* Date.now()
  rateLimitSeconds,      \* state.rateLimitSeconds: <<>> when unset, <<n>> when set
  rateLimitWait,         \* state.rateLimitWait
  lastRequestTimestamp,  \* state.lastRequestTimestamp: 0 when unset
  rl,                    \* per caller: the checkRateLimit call it has in progress
  lastRelease,           \* observation: when checkRateLimit last returned normally
  prevRelease,           \* observation: the normal return before that one
  copilotToken,          \* state.copilotToken: 0 when unset, else the k-th bearer issued
  manualApprove,         \* state.manualApprove
  req,                   \* per request: its position in handleCompletion and its outcome
  tokenFile,             \* tokens.json: <<>> when there is no file, else <<config>>
  cache,                 \* ApiTokenManager.cache: <<>> when null, else <<config>>
  lastCacheTime,         \* ApiTokenManager.lastCacheTime
  bearerExpiresAt,       \* expires_at of the bearer held in state.copilotToken
  refresher,             \* per caller: the credential fetch it has in progress
  refreshCalls,          \* the token requests sent upstream so far
  models,                \* state.models: <<>> when unset, else <<the model table>>
  call,                  \* one chat-completions request followed with its payload
  sse,                   \* one streaming response on its way to the client
  ts,                    \* translateStream: the open blocks and the events emitted
  tr,                    \* translateRequest: an assistant message and its translation
  nodeEnvDevelopment,    \* process.env.NODE_ENV === "development"
  adminApiKeyEnv,        \* process.env.ADMIN_API_KEY: 0 when unset
  authReq,               \* the last request that met an authentication guard
  metrics,               \* the counters of the MetricsCollector
  handlers,              \* GracefulShutdown.handlers, with what became of each handler
  gs                     \* GracefulShutdown: its flag, its server, its timer and the exit of the process

rlRest == <<rateLimitSeconds, rateLimitWait, lastRequestTimestamp, rl,
            lastRelease, prevRelease>>

rlVars == <<now, rlRest>>

dispatchVars == <<copilotToken, manualApprove, req>>

storeVars == <<tokenFile, cache, lastCacheTime>>

refreshVars == <<bearerExpiresAt, refresher, refreshCalls>>

payloadVars == <<models, call>>

authVars == <<nodeEnvDevelopment, adminApiKeyEnv, authReq>>

metricsVars == <<metrics>>

shutdownVars == <<handlers, gs>>

vars == <<rlVars, dispatchVars, storeVars, refreshVars, payloadVars, sse, ts, tr, authVars, metricsVars, shutdownVars>>

nonRlVars == <<dispatchVars, storeVars, refreshVars, payloadVars, sse, ts, tr, authVars, metricsVars, shutdownVars>>

nonDispatchVars == <<rlVars, storeVars, refreshVars, payloadVars, sse, ts, tr, authVars, metricsVars, shutdownVars>>

nonStoreVars == <<rlRest, dispatchVars, refreshVars, payloadVars, sse, ts, tr, authVars, metricsVars, shutdownVars>>

nonRefreshVars == <<rlRest, manualApprove, req, storeVars, payloadVars, sse, ts, tr, authVars, metricsVars, shutdownVars>>

nonPayloadVars == <<rlVars, dispatchVars, storeVars, refreshVars, sse, ts, tr, authVars, metricsVars, shutdownVars>>

nonStreamVars == <<rlVars, dispatchVars, storeVars, refreshVars, payloadVars, ts, tr, authVars, metricsVars, shutdownVars>>

nonTranslateVars == <<rlVars, dispatchVars, storeVars, refreshVars, payloadVars, sse, authVars, metricsVars, shutdownVars>>

nonAuthVars == <<rlVars, dispatchVars, storeVars, refreshVars, payloadVars, sse, ts, tr, metricsVars, shutdownVars>>

nonMetricsVars == <<rlVars, dispatchVars, storeVars, refreshVars, payloadVars, sse, ts, tr, authVars, shutdownVars>>

nonShutdownVars == <<rlVars, dispatchVars, storeVars, refreshVars, payloadVars, sse, ts, tr, authVars, metricsVars>>

\* ------------------------------------------------------------- helpers
\* a ?? b on an optional value
NullishCoalesce(v, d) == IF v = <<>> THEN d ELSE v[1]

\* Math.ceil(a / b) for b > 0 (\div rounds towards minus infinity)
Ceil(a, b) == 0 - ((0 - a) \div b)

Max(a, b) == IF a >= b THEN a ELSE b

\* (state.rateLimitSeconds ?? 0)
RateLimitSecondsOrZero == NullishCoalesce(rateLimitSeconds, 0)

IntervalMs == RateLimitSecondsOrZero * MsPerSecond

\* elapsedSeconds, kept in milliseconds
ElapsedMs(n, last) == n - last

\* a plausible slip: the milliseconds are compared with the seconds
ElapsedExceedsLimitMsVsSeconds(n, last) ==
  /\ RateLimitSecondsOrZero > 0
  /\ ElapsedMs(n, last) > RateLimitSecondsOrZero

\* (state.rateLimitSeconds ?? 0) > 0 && elapsedSeconds > (state.rateLimitSeconds ?? 0)
ElapsedExceedsLimit(n, last) ==
  /\ RateLimitSecondsOrZero > 0
  /\ ElapsedMs(n, last) > RateLimitSecondsOrZero * MsPerSecond

\* a plausible slip: Math.floor instead of Math.ceil
WaitTimeSecondsFloor(n, last) ==
  (RateLimitSecondsOrZero * MsPerSecond - ElapsedMs(n, last)) \div MsPerSecond

\* Math.ceil((state.rateLimitSeconds ?? 0) - elapsedSeconds)
WaitTimeSeconds(n, last) ==
  Ceil(RateLimitSecondsOrZero * MsPerSecond - ElapsedMs(n, last), MsPerSecond)

\* sleep(ms): setTimeout fires no earlier than now; a negative delay is no delay
SleepDeadline(n, ms) == n + Max(ms, 0)

\* ------------------------------------------------------------- errors
NoRetryAfter == <<>>

NoError == [name |-> "none", status |-> 0, retryAfter |-> NoRetryAfter]

\* new HTTPError(message, Response.json(..., { status }))
HTTPError(status) == [name |-> "HTTPError", status |-> status, retryAfter |-> NoRetryAfter]

\* HTTPError.getErrorType
GetErrorType(status) ==
  IF status >= 400 /\ status < 500 THEN "client_error"
  ELSE IF status >= 500 THEN "server_error"
  ELSE "error"

\* forwardError's last branch taken for every error
ForwardErrorAsInternal(err) ==
  [status |-> 500, type |-> "internal_error", retryAfterHeader |-> NoRetryAfter]

\* forwardError: the response the client gets for a thrown error
ForwardError(err) ==
  IF err.name = "HTTPError"
    THEN [status |-> err.status, type |-> GetErrorType(err.status),
          retryAfterHeader |-> NoRetryAfter]
  ELSE IF err.name = "ValidationError"
    THEN [status |-> 400, type |-> "validation_error", retryAfterHeader |-> NoRetryAfter]
  ELSE IF err.name = "RateLimitError"
    THEN [status |-> 429, type |-> "rate_limit_error", retryAfterHeader |-> err.retryAfter]
  ELSE IF err.name = "AuthenticationError"
    THEN [status |-> 401, type |-> "authentication_error", retryAfterHeader |-> NoRetryAfter]
  ELSE [status |-> 500, type |-> "internal_error", retryAfterHeader |-> NoRetryAfter]

\* ------------------------------------------------------ admission control
IdleCall == [pc |-> "idle", at |-> 0, seen |-> 0, wakeAt |-> 0, waited |-> FALSE,
             releasedAt |-> 0, stamp |-> 0, err |-> NoError]

\* checkRateLimit returned normally at the current instant
Released ==
  /\ prevRelease' = lastRelease
  /\ lastRelease' = now

\* checkRateLimit(state), from its entry to its return, throw or first await
CheckRateLimit(c) ==
  /\ rl[c].pc = "idle"
  /\ IF lastRequestTimestamp = 0
       THEN /\ lastRequestTimestamp' = now
            /\ rl' = [rl EXCEPT ![c] = [IdleCall EXCEPT !.pc = "returned", !.at = now,
                                          !.wakeAt = now, !.releasedAt = now,
                                          !.stamp = now]]
            /\ Released
     ELSE IF ElapsedExceedsLimit(now, lastRequestTimestamp)
       THEN /\ lastRequestTimestamp' = now
            /\ rl' = [rl EXCEPT ![c] = [IdleCall EXCEPT !.pc = "returned", !.at = now,
                                          !.seen = lastRequestTimestamp,
                                          !.wakeAt = now, !.releasedAt = now,
                                          !.stamp = now]]
            /\ Released
     ELSE IF ~rateLimitWait
       THEN /\ rl' = [rl EXCEPT ![c] = [IdleCall EXCEPT !.pc = "thrown", !.at = now,
                                          !.seen = lastRequestTimestamp,
                                          !.err = HTTPError(429)]]
            /\ UNCHANGED <<lastRequestTimestamp, lastRelease, prevRelease>>
     ELSE /\ rl' = [rl EXCEPT ![c] = [IdleCall EXCEPT !.pc = "sleeping", !.at = now,
                      !.seen = lastRequestTimestamp,
                      !.wakeAt = SleepDeadline(now,
                         WaitTimeSeconds(now, lastRequestTimestamp) * MsPerSecond)]]
          /\ UNCHANGED <<lastRequestTimestamp, lastRelease, prevRelease>>
  /\ UNCHANGED <<now, rateLimitSeconds, rateLimitWait>>
  /\ UNCHANGED nonRlVars

\* the continuation of checkRateLimit recording the time of waking
WakeUpStampingWakeTime(c) ==
  /\ rl[c].pc = "sleeping"
  /\ now >= rl[c].wakeAt
  /\ lastRequestTimestamp' = now
  /\ rl' = [rl EXCEPT ![c].pc = "returned", ![c].waited = TRUE,
                       ![c].releasedAt = now, ![c].stamp = now]
  /\ Released
  /\ UNCHANGED <<now, rateLimitSeconds, rateLimitWait>>
  /\ UNCHANGED nonRlVars

\* the continuation of checkRateLimit after await sleep(waitTimeMs)
WakeUp(c) ==
  /\ rl[c].pc = "sleeping"
  /\ now >= rl[c].wakeAt
  /\ lastRequestTimestamp' = rl[c].at
  /\ rl' = [rl EXCEPT ![c].pc = "returned", ![c].waited = TRUE,
                       ![c].releasedAt = now, ![c].stamp = rl[c].at]
  /\ Released
  /\ UNCHANGED <<now, rateLimitSeconds, rateLimitWait>>
  /\ UNCHANGED nonRlVars

\* the caller is done with the outcome and may call again
NextCall(c) ==
  /\ rl[c].pc \in {"returned", "thrown"}
  /\ rl' = [rl EXCEPT ![c] = IdleCall]
  /\ UNCHANGED <<now, rateLimitSeconds, rateLimitWait, lastRequestTimestamp,
                 lastRelease, prevRelease>>
  /\ UNCHANGED nonRlVars

\* the clock advances, but not past the deadline of a pending timer
Tick ==
  /\ now + TickMs <= MaxTime
  /\ \A c \in Callers : rl[c].pc = "sleeping" => now + TickMs <= rl[c].wakeAt
  /\ now' = now + TickMs
  /\ UNCHANGED <<rateLimitSeconds, rateLimitWait, lastRequestTimestamp, rl,
                 lastRelease, prevRelease>>
  /\ UNCHANGED nonRlVars

\* the state after runServer applied the command line options to the global state
RateLimitInit ==
  /\ now = MsPerSecond
  /\ rateLimitSeconds \in {<<>>} \cup {<<n>> : n \in 0..MaxRateLimitSeconds}
  /\ rateLimitWait \in BOOLEAN
  /\ lastRequestTimestamp = 0
  /\ rl = [c \in Callers |-> IdleCall]
  /\ lastRelease = 0
  /\ prevRelease = 0

\* the admission controller at rest, for the specifications that do not exercise it
RateLimitQuiet ==
  /\ now = MsPerSecond
  /\ rateLimitSeconds = <<>>
  /\ rateLimitWait = FALSE
  /\ lastRequestTimestamp = 0
  /\ rl = [c \in Callers |-> IdleCall]
  /\ lastRelease = 0
  /\ prevRelease = 0

RateLimitNext ==
  \/ \E c \in Callers : CheckRateLimit(c)
  \/ \E c \in Callers : WakeUp(c)
  \/ \E c \in Callers : NextCall(c)
  \/ Tick


\* ------------------------------------------------------------ dispatcher
Requests == 1..NumRequests

\* the request bodies a client may send: blank text, text that is no JSON, or a
\* JSON payload with or without its messages array and its model
Bodies ==
  {[text |-> t, messagesIsArray |-> FALSE, hasModel |-> FALSE, stream |-> FALSE] :
      t \in {"blank", "notjson"}}
  \cup
  {[text |-> "json", messagesIsArray |-> a, hasModel |-> m, stream |-> s] :
      a \in BOOLEAN, m \in BOOLEAN, s \in BOOLEAN}

\* the statuses the upstream chat-completions endpoint may answer with
UpstreamStatuses == {200, 401, 500}

NoResponse == [status |-> 0, type |-> "none", retryAfterHeader |-> NoRetryAfter]

OkResponse == [status |-> 200, type |-> "ok", retryAfterHeader |-> NoRetryAfter]

\* what response.json() finds in the body of a 2xx answer to a request without
\* stream: a completion object, the JSON value null, or text that is no JSON
UpstreamBodies == {"completion", "null", "notjson"}

\* new Error(message)
GenericError == [name |-> "Error", status |-> 0, retryAfter |-> NoRetryAfter]

IdleRequest == [pc |-> "idle", body |-> CHOOSE b \in Bodies : b.text = "blank",
                admitted |-> FALSE, dispatched |-> FALSE, tokenAtDispatch |-> 0, upstreamCalls |-> 0,
                upstreamStatus |-> 0, tracked |-> <<>>, err |-> NoError,
                response |-> NoResponse]

\* trackRequest(payload.model, startTime, success): one more call recorded
TrackRequest(calls, success) == Append(calls, success)

\* the route's catch block: forwardError(c, error)
Fail(r, error) ==
  req' = [req EXCEPT ![r].pc = "done", ![r].err = error,
                     ![r].response = ForwardError(error)]

\* a client posts a request to /chat/completions
Receive(r, body) ==
  /\ req[r].pc = "idle"
  /\ req' = [req EXCEPT ![r].pc = "received", ![r].body = body]
  /\ UNCHANGED <<copilotToken, manualApprove>>
  /\ UNCHANGED nonDispatchVars

\* handleCompletion up to the approval prompt: the body is read and parsed, the
\* required fields are checked (the call of checkRateLimit is commented out)
ParseAndValidate(r) ==
  /\ req[r].pc = "received"
  /\ IF req[r].body.text # "json"
       THEN Fail(r, HTTPError(400))
     ELSE IF ~req[r].body.messagesIsArray \/ ~req[r].body.hasModel
       THEN Fail(r, HTTPError(400))
     ELSE req' = [req EXCEPT ![r].pc = IF manualApprove THEN "approval" ELSE "approved"]
  /\ UNCHANGED <<copilotToken, manualApprove>>
  /\ UNCHANGED nonDispatchVars

\* awaitApproval: the operator answers the prompt
AwaitApproval(r, accepted) ==
  /\ req[r].pc = "approval"
  /\ IF accepted
       THEN req' = [req EXCEPT ![r].pc = "approved"]
       ELSE Fail(r, HTTPError(403))
  /\ UNCHANGED <<copilotToken, manualApprove>>
  /\ UNCHANGED nonDispatchVars

\* createChatCompletions up to its fetch: without a token it throws a plain Error
CreateChatCompletions(r) ==
  /\ req[r].pc = "approved"
  /\ IF copilotToken = 0
       THEN req' = [req EXCEPT ![r].pc = "done", ![r].dispatched = TRUE,
                               ![r].tokenAtDispatch = copilotToken,
                               ![r].tracked = TrackRequest(@, FALSE),
                               ![r].err = GenericError,
                               ![r].response = ForwardError(GenericError)]
       ELSE req' = [req EXCEPT ![r].pc = "fetching", ![r].dispatched = TRUE,
                               ![r].tokenAtDispatch = copilotToken,
                               ![r].upstreamCalls = @ + 1]
  /\ UNCHANGED <<copilotToken, manualApprove>>
  /\ UNCHANGED nonDispatchVars

\* isNonStreaming: Object.hasOwn(response, "choices") throws a TypeError on null
IsNonStreamingThrows(r, body) == ~req[r].body.stream /\ body = "null"

\* the upstream answers the fetch and handleCompletion runs to its return or
\* throw: a non-2xx answer is thrown as an HTTPError, a body that is no JSON
\* makes response.json() throw, and both reach the handler's catch block
UpstreamResponds(r, status, body) ==
  /\ req[r].pc = "fetching"
  /\ (status # 200 \/ req[r].body.stream) => body = "completion"
  /\ IF status # 200
       THEN req' = [req EXCEPT ![r].pc = "done", ![r].upstreamStatus = status,
                               ![r].tracked = TrackRequest(@, FALSE),
                               ![r].err = HTTPError(status),
                               ![r].response = ForwardError(HTTPError(status))]
     ELSE IF ~req[r].body.stream /\ body = "notjson"
       THEN req' = [req EXCEPT ![r].pc = "done", ![r].upstreamStatus = status,
                               ![r].tracked = TrackRequest(@, FALSE),
                               ![r].err = GenericError,
                               ![r].response = ForwardError(GenericError)]
     ELSE IF IsNonStreamingThrows(r, body)
       THEN req' = [req EXCEPT ![r].pc = "done", ![r].upstreamStatus = status,
                               ![r].tracked = TrackRequest(TrackRequest(@, TRUE), FALSE),
                               ![r].err = GenericError,
                               ![r].response = ForwardError(GenericError)]
     ELSE req' = [req EXCEPT ![r].pc = "done", ![r].upstreamStatus = status,
                             ![r].tracked = TrackRequest(@, TRUE),
                             ![r].response = OkResponse]
  /\ UNCHANGED <<copilotToken, manualApprove>>
  /\ UNCHANGED nonDispatchVars

\* the server with or without a Copilot token, with or without manual approval
DispatchInit ==
  /\ copilotToken \in {0, 1}
  /\ manualApprove \in BOOLEAN
  /\ req = [r \in Requests |-> IdleRequest]

DispatchQuiet ==
  /\ copilotToken = 0
  /\ manualApprove = FALSE
  /\ req = [r \in Requests |-> IdleRequest]

DispatchNext ==
  \/ \E r \in Requests, b \in Bodies : Receive(r, b)
  \/ \E r \in Requests : ParseAndValidate(r)
  \/ \E r \in Requests, a \in BOOLEAN : AwaitApproval(r, a)
  \/ \E r \in Requests : CreateChatCompletions(r)
  \/ \E r \in Requests, s \in UpstreamStatuses, b \in UpstreamBodies :
       UpstreamResponds(r, s, b)

\* ------------------------------------------------------- ApiTokenManager
\* the copilot tokens and the API keys that may be stored (0: none)
TokenValues == 0..1

\* saveTokens' configuration for a first save: { created_at, usage_count: 0 }
EmptyConfig == [github_token |-> 0, copilot_token |-> 0, api_key |-> 0,
                expires_at |-> <<>>, usage_count |-> 0]

\* loadTokens' result: the cache while it is fresh, else the file
LoadTokens ==
  IF cache # <<>> /\ now - lastCacheTime < CacheTimeoutMs THEN cache ELSE tokenFile

\* !validation.expiresIn: undefined and 0 are both falsy
ExpiresInFalsy(expiresIn) == expiresIn = <<>> \/ expiresIn[1] = 0

\* validateTokens
ValidateTokens ==
  LET loaded == LoadTokens IN
  IF loaded = <<>>
    THEN [isValid |-> FALSE, isExpired |-> FALSE, expiresIn |-> <<>>]
  ELSE
    LET tokens    == loaded[1]
        isExpired == tokens.expires_at # <<>> /\ now > tokens.expires_at[1]
        expiresIn == IF tokens.expires_at = <<>> THEN <<>>
                     ELSE <<Max(0, tokens.expires_at[1] - now)>>
    IN [isValid |-> (tokens.github_token # 0 \/ tokens.copilot_token # 0
                       \/ tokens.api_key # 0) /\ ~isExpired,
        isExpired |-> isExpired,
        expiresIn |-> expiresIn]

\* needsRefresh
NeedsRefresh ==
  LET validation == ValidateTokens IN
  IF ~validation.isValid \/ ExpiresInFalsy(validation.expiresIn)
    THEN FALSE
    ELSE validation.expiresIn[1] < RefreshMarginMs

\* saveTokens(tokens): the stored configuration overlaid with the given fields
SaveTokens(overlay) ==
  LET loaded   == LoadTokens
      existing == IF loaded = <<>> THEN EmptyConfig ELSE loaded[1]
      updated  == [f \in DOMAIN existing |->
                     IF f = "usage_count" THEN existing.usage_count + 1
                     ELSE IF f \in DOMAIN overlay THEN overlay[f] ELSE existing[f]]
  IN /\ existing.usage_count < MaxUsageCount
     /\ tokenFile' = <<updated>>
     /\ cache' = <<updated>>
     /\ lastCacheTime' = now

\* setCopilotToken(token, expiresAt): an absent expiresAt overwrites expires_at
SetCopilotToken(token, expiresAt) ==
  /\ SaveTokens([copilot_token |-> token, expires_at |-> expiresAt])
  /\ UNCHANGED now
  /\ UNCHANGED nonStoreVars

\* setApiKey(apiKey)
SetApiKey(key) ==
  /\ SaveTokens([api_key |-> key])
  /\ UNCHANGED now
  /\ UNCHANGED nonStoreVars

\* clearTokens rewriting the file and leaving the cache as it is
ClearTokensKeepingCache ==
  /\ tokenFile' = IF tokenFile # <<>> THEN <<EmptyConfig>> ELSE tokenFile
  /\ UNCHANGED <<cache, lastCacheTime>>
  /\ UNCHANGED now
  /\ UNCHANGED nonStoreVars

\* clearTokens: an existing file is rewritten empty, the cache is dropped
ClearTokens ==
  /\ tokenFile' = IF tokenFile # <<>> THEN <<EmptyConfig>> ELSE tokenFile
  /\ cache' = <<>>
  /\ lastCacheTime' = 0
  /\ UNCHANGED now
  /\ UNCHANGED nonStoreVars

\* loadTokens reading the file: the cache is refilled
ReadTokenFile ==
  /\ ~(cache # <<>> /\ now - lastCacheTime < CacheTimeoutMs)
  /\ tokenFile # <<>>
  /\ cache' = tokenFile
  /\ lastCacheTime' = now
  /\ UNCHANGED <<now, tokenFile>>
  /\ UNCHANGED nonStoreVars

\* the clock of the token specifications
TokenTick ==
  /\ now + TokenTickMs <= MaxTokenTime
  /\ now' = now + TokenTickMs
  /\ UNCHANGED storeVars
  /\ UNCHANGED nonStoreVars

\* a token manager just constructed, no tokens.json yet
StoreInit ==
  /\ tokenFile = <<>>
  /\ cache = <<>>
  /\ lastCacheTime = 0

\* the instants an expiry may be set to: now or a few ticks ahead
ExpiryChoices == {<<>>} \cup {<<now + k * TokenTickMs>> : k \in 0..MaxExpiryTicks}

StoreNext ==
  \/ \E t \in TokenValues \ {0}, e \in ExpiryChoices : SetCopilotToken(t, e)
  \/ \E k \in TokenValues \ {0} : SetApiKey(k)
  \/ ClearTokens
  \/ ReadTokenFile
  \/ TokenTick

\* ---------------------------------------------------- credential refresh
IdleRefresher == [pc |-> "idle", seen |-> 0, call |-> 0, got |-> 0]

\* the lifetimes the token endpoint may grant a bearer
BearerLifetimes == {RefreshMarginMs, 2 * RefreshMarginMs}

\* getCopilotToken up to its await: one fetch of /copilot_internal/v2/token per call
GetCopilotTokenFetch(c) ==
  /\ refreshCalls < MaxRefreshCalls
  /\ refresher' = [refresher EXCEPT ![c] = [pc |-> "fetching", seen |-> copilotToken,
                                            call |-> refreshCalls + 1, got |-> 0]]
  /\ refreshCalls' = refreshCalls + 1

\* getValid(): the bearer held is returned unless its remaining lifetime is below
\* the refresh margin, in which case the caller fetches a new one
GetValid(c) ==
  /\ refresher[c].pc = "idle"
  /\ IF bearerExpiresAt - now < RefreshMarginMs
       THEN GetCopilotTokenFetch(c)
       ELSE /\ refresher' = [refresher EXCEPT ![c] = [pc |-> "done", seen |-> copilotToken,
                                                      call |-> 0, got |-> copilotToken]]
            /\ UNCHANGED refreshCalls
  /\ UNCHANGED <<now, copilotToken, bearerExpiresAt>>
  /\ UNCHANGED nonRefreshVars

\* the refresh operation's result becomes the bearer held
StoreBearer(token, expiresAt) ==
  /\ copilotToken' = token
  /\ bearerExpiresAt' = expiresAt

\* getCopilotToken after its await: a non-2xx answer is thrown, a 2xx answer is
\* the new bearer, which the caller stores and returns
GetCopilotTokenSettle(c, ok, lifetime) ==
  /\ refresher[c].pc = "fetching"
  /\ IF ok
       THEN /\ StoreBearer(refresher[c].call + 1, now + lifetime)
            /\ refresher' = [refresher EXCEPT ![c].pc = "done",
                                              ![c].got = refresher[c].call + 1]
       ELSE /\ refresher' = [refresher EXCEPT ![c].pc = "failed"]
            /\ UNCHANGED <<copilotToken, bearerExpiresAt>>
  /\ UNCHANGED <<now, refreshCalls>>
  /\ UNCHANGED nonRefreshVars
\* the caller is done with the bearer or the error and may ask again
NextGetValid(c) ==
  /\ refresher[c].pc \in {"done", "failed"}
  /\ refresher' = [refresher EXCEPT ![c] = IdleRefresher]
  /\ UNCHANGED <<now, copilotToken, bearerExpiresAt, refreshCalls>>
  /\ UNCHANGED nonRefreshVars

\* the clock of the refresh specification
RefreshTick ==
  /\ now + TokenTickMs <= MaxTokenTime
  /\ now' = now + TokenTickMs
  /\ UNCHANGED <<copilotToken, bearerExpiresAt, refresher, refreshCalls>>
  /\ UNCHANGED nonRefreshVars

\* authenticated: the first bearer is held and has its full lifetime ahead
RefreshInit ==
  /\ copilotToken = 1
  /\ manualApprove = FALSE
  /\ req = [r \in Requests |-> IdleRequest]
  /\ bearerExpiresAt = now + 2 * RefreshMarginMs
  /\ refresher = [c \in Callers |-> IdleRefresher]
  /\ refreshCalls = 0

RefreshNext ==
  \/ \E c \in Callers : GetValid(c)
  \/ \E c \in Callers, ok \in BOOLEAN, l \in BearerLifetimes : GetCopilotTokenSettle(c, ok, l)
  \/ \E c \in Callers : NextGetValid(c)
  \/ RefreshTick

\* -------------------------------------------------------- request payload
\* Strings are sequences of characters.
Whitespace == {" ", "\n"}

RECURSIVE TrimStart(_)
TrimStart(s) ==
  IF s # <<>> /\ Head(s) \in Whitespace THEN TrimStart(Tail(s)) ELSE s

RECURSIVE TrimEnd(_)
TrimEnd(s) ==
  IF s # <<>> /\ s[Len(s)] \in Whitespace
    THEN TrimEnd(SubSeq(s, 1, Len(s) - 1))
    ELSE s

\* String.prototype.trim
Trim(s) == TrimEnd(TrimStart(s))

\* a message content is a string or an array of content parts
StringContent(text) == [isString |-> TRUE, text |-> text]

PartsContent(text) == [isString |-> FALSE, text |-> text]

\* JSON.stringify(msg.content) of an array of content parts
JsonStringify(content) == <<"[", "{">> \o content.text \o <<"}", "]">>

Roles == {"system", "user", "assistant", "tool"}

\* a system message holds a string or content parts, the others a string
Messages ==
  {[role |-> "system", content |-> c] :
      c \in {StringContent(<<"S">>), PartsContent(<<"S">>)}}
  \cup {[role |-> r, content |-> StringContent(<<"U">>)] : r \in Roles \ {"system"}}

MessageLists == UNION {[1..n -> Messages] : n \in 0..MaxMessages}

\* payload.messages: absent, present but no array, or an array
MessagesFields ==
  {[kind |-> k, list |-> <<>>] : k \in {"missing", "notarray"}}
  \cup {[kind |-> "array", list |-> l] : l \in MessageLists}

\* payload.agent_prompt: absent, blank, or a text
AgentPrompts == {<<>>, <<<<" ">>>>, <<<<"P">>>>}

\* payload.max_tokens of a caller that supplies it
CallerMaxTokens == 100

\* capabilities.limits.max_output_tokens of the model the table knows
KnownMaxOutputTokens == 16384

\* state.models.data
ModelTable == {[id |-> "known", max_output_tokens |-> KnownMaxOutputTokens]}

\* the JSON payloads a client may post
Payloads ==
  [model : {<<>>, <<"known">>, <<"unknown">>},
   messages : MessagesFields,
   max_tokens : {<<>>, <<CallerMaxTokens>>},
   agent_prompt : AgentPrompts]

\* handleCompletion: Array.isArray(payload.messages) && payload.model
RequiredFieldsPresent(payload) ==
  payload.messages.kind = "array" /\ payload.model # <<>>

\* state.models?.data.find((model) => model.id === payload.model)
SelectedModel(payload) ==
  IF models = <<>> THEN {} ELSE {m \in models[1] : <<m.id>> = payload.model}

\* handleCompletion ignoring isNullish: max_tokens always taken from the table
OverwriteMaxTokens(payload) ==
  [payload EXCEPT !.max_tokens =
     IF SelectedModel(payload) = {} THEN <<>>
     ELSE <<(CHOOSE m \in SelectedModel(payload) : TRUE).max_output_tokens>>]

\* handleCompletion: if (isNullish(payload.max_tokens)) { ... }
DefaultMaxTokens(payload) ==
  IF payload.max_tokens # <<>> THEN payload
  ELSE [payload EXCEPT !.max_tokens =
          IF SelectedModel(payload) = {} THEN <<>>
          ELSE <<(CHOOSE m \in SelectedModel(payload) : TRUE).max_output_tokens>>]

\* payload.agent_prompt && payload.agent_prompt.trim()
HasAgentPrompt(payload) ==
  /\ payload.agent_prompt # <<>>
  /\ payload.agent_prompt[1] # <<>>
  /\ Trim(payload.agent_prompt[1]) # <<>>

HasSystemMessage(messages) == \E i \in 1..Len(messages) : messages[i].role = "system"

\* payload.messages.findIndex(m => m.role === "system")
FirstSystemIndex(messages) ==
  CHOOSE i \in 1..Len(messages) :
    /\ messages[i].role = "system"
    /\ \A j \in 1..(i - 1) : messages[j].role # "system"

\* typeof msg.content === "string" ? msg.content : JSON.stringify(msg.content)
ContentText(content) ==
  IF content.isString THEN content.text ELSE JsonStringify(content)

\* createChatCompletions with the agent prompt replacing the system content
ProcessedMessagesReplacing(payload) ==
  LET messages == payload.messages.list IN
  IF ~HasAgentPrompt(payload) THEN messages
  ELSE IF HasSystemMessage(messages)
    THEN [i \in 1..Len(messages) |->
            IF i = FirstSystemIndex(messages)
              THEN [messages[i] EXCEPT
                      !.content = StringContent(payload.agent_prompt[1])]
              ELSE messages[i]]
    ELSE <<[role |-> "system", content |-> StringContent(payload.agent_prompt[1])]>>
         \o messages

\* createChatCompletions: processedMessages
ProcessedMessages(payload) ==
  LET messages == payload.messages.list IN
  IF ~HasAgentPrompt(payload) THEN messages
  ELSE IF HasSystemMessage(messages)
    THEN [i \in 1..Len(messages) |->
            IF messages[i].role = "system" /\ i = FirstSystemIndex(messages)
              THEN [messages[i] EXCEPT
                      !.content = StringContent(payload.agent_prompt[1] \o <<"\n", "\n">>
                                                \o ContentText(messages[i].content))]
              ELSE messages[i]]
    ELSE <<[role |-> "system", content |-> StringContent(payload.agent_prompt[1])]>>
         \o messages

\* createChatCompletions looking at the message roles only
IsAgentCallByRolesOnly(payload) ==
  \E i \in 1..Len(ProcessedMessages(payload)) :
    ProcessedMessages(payload)[i].role \in {"assistant", "tool"}

\* createChatCompletions: isAgentCall
IsAgentCall(payload) ==
  \/ \E i \in 1..Len(ProcessedMessages(payload)) :
       ProcessedMessages(payload)[i].role \in {"assistant", "tool"}
  \/ (payload.agent_prompt # <<>> /\ Trim(payload.agent_prompt[1]) # <<>>)

\* createChatCompletions: the X-Initiator header and finalPayload
UpstreamRequest(payload) ==
  [initiator |-> IF IsAgentCall(payload) THEN "agent" ELSE "user",
   model |-> payload.model,
   messages |-> ProcessedMessages(payload),
   max_tokens |-> payload.max_tokens,
   agent_prompt |-> <<>>]

IdlePayloadCall ==
  [pc |-> "idle",
   payload |-> [model |-> <<>>, messages |-> [kind |-> "missing", list |-> <<>>],
                max_tokens |-> <<>>, agent_prompt |-> <<>>],
   upstream |-> <<>>, err |-> NoError, response |-> NoResponse]

\* a client posts a JSON payload to /chat/completions
PostPayload(payload) ==
  /\ call.pc = "idle"
  /\ call' = [call EXCEPT !.pc = "received", !.payload = payload]
  /\ UNCHANGED models
  /\ UNCHANGED nonPayloadVars

\* handleCompletion from the required-fields check to the fetch of
\* createChatCompletions (manual approval is off)
HandleCompletion ==
  /\ call.pc = "received"
  /\ ~manualApprove
  /\ IF ~RequiredFieldsPresent(call.payload)
       THEN call' = [call EXCEPT !.pc = "done", !.err = HTTPError(400),
                                 !.response = ForwardError(HTTPError(400))]
     ELSE IF copilotToken = 0
       THEN call' = [call EXCEPT !.pc = "done", !.err = GenericError,
                                 !.response = ForwardError(GenericError)]
     ELSE call' = [call EXCEPT !.pc = "fetching",
                               !.upstream = <<UpstreamRequest(DefaultMaxTokens(call.payload))>>]
  /\ UNCHANGED models
  /\ UNCHANGED nonPayloadVars

\* the upstream answers the fetch
PayloadUpstreamResponds(status) ==
  /\ call.pc = "fetching"
  /\ IF status = 200
       THEN call' = [call EXCEPT !.pc = "done", !.response = OkResponse]
       ELSE call' = [call EXCEPT !.pc = "done", !.err = HTTPError(status),
                                 !.response = ForwardError(HTTPError(status))]
  /\ UNCHANGED models
  /\ UNCHANGED nonPayloadVars

\* the server with or without a bearer, with or without its model table loaded
PayloadInit ==
  /\ copilotToken \in {0, 1}
  /\ manualApprove = FALSE
  /\ req = [r \in Requests |-> IdleRequest]
  /\ models \in {<<>>, <<ModelTable>>}
  /\ call = IdlePayloadCall

PayloadQuiet ==
  /\ models = <<>>
  /\ call = IdlePayloadCall

PayloadNext ==
  \/ \E p \in Payloads : PostPayload(p)
  \/ HandleCompletion
  \/ \E s \in UpstreamStatuses : PayloadUpstreamResponds(s)

\* ------------------------------------------------------ streaming response
\* the events of one upstream stream, numbered in arrival order
EventsOf(total) == [i \in 1..total |-> i]

IdleStream ==
  [pc |-> "idle", total |-> 0, consumed |-> 0, chunk |-> <<>>, readable |-> <<>>,
   body |-> <<>>, delivered |-> <<>>, clientOpen |-> TRUE, consumedAtClose |-> 0]

\* handleCompletion: createChatCompletions returned events(response) for a
\* streaming request and streamSSE starts its callback; runServer awaits
\* response.text() on the response that streamSSE returned
StreamSSE(total) ==
  /\ sse.pc = "idle"
  /\ sse' = [sse EXCEPT !.pc = "streaming", !.total = total]
  /\ UNCHANGED nonStreamVars

\* for await (const chunk of response): the next upstream event is taken once
\* the previous writeSSE has resolved
NextChunk ==
  /\ sse.pc = "streaming"
  /\ sse.chunk = <<>>
  /\ sse.consumed < sse.total
  /\ sse' = [sse EXCEPT !.consumed = @ + 1,
                        !.chunk = <<EventsOf(sse.total)[sse.consumed + 1]>>]
  /\ UNCHANGED nonStreamVars

\* await stream.writeSSE(chunk): the chunk enters the response body stream when
\* the stream has room for it
WriteSSE ==
  /\ sse.pc = "streaming"
  /\ sse.chunk # <<>>
  /\ sse.readable = <<>>
  /\ sse' = [sse EXCEPT !.readable = sse.chunk, !.chunk = <<>>]
  /\ UNCHANGED nonStreamVars

\* runServer, response.text(): a chunk of the response body is read and appended
\* to the text collected so far
ReadBody ==
  /\ sse.pc \in {"streaming", "closed"}
  /\ sse.readable # <<>>
  /\ sse' = [sse EXCEPT !.body = @ \o sse.readable, !.readable = <<>>]
  /\ UNCHANGED nonStreamVars

\* the upstream stream is exhausted: the for await loop ends and streamSSE
\* closes the response body stream
CloseStream ==
  /\ sse.pc = "streaming"
  /\ sse.chunk = <<>>
  /\ sse.consumed = sse.total
  /\ sse' = [sse EXCEPT !.pc = "closed"]
  /\ UNCHANGED nonStreamVars

\* runServer: response.text() resolves at the end of the body and res.end(body)
\* sends the collected text; a client that has gone receives nothing
ResEnd ==
  /\ sse.pc = "closed"
  /\ sse.readable = <<>>
  /\ sse' = [sse EXCEPT !.pc = "ended",
                        !.delivered = IF sse.clientOpen THEN sse.body ELSE <<>>]
  /\ UNCHANGED nonStreamVars

\* the client closes its connection: runServer has no listener for it, the
\* Request it builds carries no signal and neither does the upstream fetch
ClientCloses ==
  /\ sse.pc \in {"streaming", "closed"}
  /\ sse.clientOpen
  /\ sse' = [sse EXCEPT !.clientOpen = FALSE, !.consumedAtClose = sse.consumed]
  /\ UNCHANGED nonStreamVars

StreamInit == sse = IdleStream

StreamNext ==
  \/ \E n \in 0..MaxEvents : StreamSSE(n)
  \/ NextChunk
  \/ WriteSSE
  \/ ReadBody
  \/ CloseStream
  \/ ResEnd
  \/ ClientCloses

\* ---------------------------------------------------- stream translation
\* the content-block indexes a canonical chunk may name
BlockIndexes == 0..MaxBlockIndex

\* a dialect-B stream event; message-level events carry index -1
Event(type, index, kind) == [type |-> type, index |-> index, kind |-> kind]

MessageEvent(type) == Event(type, -1, "none")

\* content_block_stop for every index of the set, highest index first
RECURSIVE StopEventsDescending(_)
StopEventsDescending(open) ==
  IF open = {} THEN <<>>
  ELSE LET i == CHOOSE j \in open : \A k \in open : k <= j
       IN <<Event("content_block_stop", i, "none")>> \o StopEventsDescending(open \ {i})

\* content_block_stop for every still-open block, in ascending index order
RECURSIVE StopEvents(_)
StopEvents(open) ==
  IF open = {} THEN <<>>
  ELSE LET i == CHOOSE j \in open : \A k \in open : j <= k
       IN <<Event("content_block_stop", i, "none")>> \o StopEvents(open \ {i})

\* message_start on the first canonical chunk
MessageStart == IF ts.chunks = 0 THEN <<MessageEvent("message_start")>> ELSE <<>>

\* a delta for an index with no open block opens a block of the given kind
BlockStart(i, kind) ==
  IF i \in ts.open THEN <<>> ELSE <<Event("content_block_start", i, kind)>>

IdleTranslator == [pc |-> "idle", chunks |-> 0, open |-> {}, out |-> <<>>, ending |-> "none"]

\* translateStream on a chunk with a text delta or a tool-call fragment
Delta(i, kind, deltaKind) ==
  /\ ts.pc \in {"idle", "running"}
  /\ ts.chunks < MaxChunks
  /\ ts' = [ts EXCEPT !.pc = "running", !.chunks = @ + 1, !.open = @ \cup {i},
                      !.out = @ \o MessageStart \o BlockStart(i, kind)
                                \o <<Event("content_block_delta", i, deltaKind)>>]
  /\ UNCHANGED tr
  /\ UNCHANGED nonTranslateVars

TextDelta(i) == Delta(i, "text", "text_delta")

ToolCallFragment(i) == Delta(i, "tool_use", "input_json_delta")

\* the closing events: the stops, one message_delta, message_stop
Closing ==
  StopEvents(ts.open) \o <<MessageEvent("message_delta"), MessageEvent("message_stop")>>

\* translateStream on the canonical finish signal
FinishSignal ==
  /\ ts.pc \in {"idle", "running"}
  /\ ts' = [ts EXCEPT !.pc = "ended", !.chunks = @ + 1, !.open = {}, !.ending = "finish",
                      !.out = @ \o MessageStart \o Closing]
  /\ UNCHANGED tr
  /\ UNCHANGED nonTranslateVars

\* translateStream when the upstream sequence ends without a finish signal
UpstreamEndsEarly ==
  /\ ts.pc \in {"idle", "running"}
  /\ ts' = [ts EXCEPT !.pc = "ended", !.open = {}, !.ending = "early",
                      !.out = @ \o Closing]
  /\ UNCHANGED tr
  /\ UNCHANGED nonTranslateVars

TranslateStreamInit == ts = IdleTranslator

TranslateStreamNext ==
  \/ \E i \in BlockIndexes : TextDelta(i)
  \/ \E i \in BlockIndexes : ToolCallFragment(i)
  \/ FinishSignal
  \/ UpstreamEndsEarly

\* --------------------------------------------------- request translation
Texts == {<<"A">>, <<"B">>}

\* the thinking and text parts of an assistant message
Parts == [type : {"thinking", "text"}, text : Texts]

PartLists == UNION {[1..n -> Parts] : n \in 1..MaxParts}

\* what the translation puts between two flattened parts
Separators == {<<>>, <<"\n", "\n">>}

RECURSIVE Join(_, _)
Join(texts, sep) ==
  IF texts = <<>> THEN <<>>
  ELSE IF Len(texts) = 1 THEN texts[1]
  ELSE texts[1] \o sep \o Join(Tail(texts), sep)

PartsOfType(parts, type) == SelectSeq(parts, LAMBDA p : p.type = type)

TextsOf(parts) == [i \in 1..Len(parts) |-> parts[i].text]

\* the parts flattened with the visible text first and the thinking after it
FlattenTextFirst(parts, sep) ==
  Join(TextsOf(PartsOfType(parts, "text") \o PartsOfType(parts, "thinking")), sep)

\* the parts flattened into one text blob in their original order
Flatten(parts, sep) == Join(TextsOf(parts), sep)

\* translateRequest on an assistant message with content parts
TranslateRequest ==
  /\ tr.pc = "raw"
  /\ tr' = [tr EXCEPT !.pc = "translated",
                      !.message = [role |-> "assistant",
                                   content |-> <<Flatten(tr.parts, tr.separator)>>]]
  /\ UNCHANGED ts
  /\ UNCHANGED nonTranslateVars

NoMessage == [role |-> "none", content |-> <<>>]

TranslateRequestInit ==
  tr \in [pc : {"raw"}, parts : PartLists, separator : Separators, message : {NoMessage}]

TranslateRequestQuiet ==
  tr = [pc |-> "raw", parts |-> <<[type |-> "text", text |-> <<"A">>]>>,
        separator |-> <<>>, message |-> NoMessage]

TranslateRequestNext == TranslateRequest

\* --------------------------------------------------------- authentication
\* the API keys that may be generated, stored or presented
ApiKeys == 1..NumApiKeys

\* the Authorization header of a request: absent, of another scheme, or
\* "Bearer " followed by a key (0: nothing after the scheme)
NoHeader == [scheme |-> "none", key |-> 0]

Headers ==
  {NoHeader, [scheme |-> "Basic", key |-> 0]}
  \cup {[scheme |-> "Bearer", key |-> k] : k \in 0..NumApiKeys}

\* extractApiKey: null (<<>>) unless the header starts with "Bearer "
ExtractApiKey(authHeader) ==
  IF authHeader.scheme # "Bearer" THEN <<>> ELSE <<authHeader.key>>

\* the truthiness of a string or null: null and the empty string (0) are falsy
Truthy(key) == key # <<>> /\ key[1] # 0

\* tokenManager.getApiKey: tokens?.api_key || null
GetApiKey ==
  IF LoadTokens = <<>> \/ LoadTokens[1].api_key = 0 THEN <<>>
  ELSE <<LoadTokens[1].api_key>>

\* validateApiToken
ValidateApiToken(apiKey) ==
  IF GetApiKey = <<>> THEN FALSE ELSE apiKey = GetApiKey[1]

\* validateCopilotToken
ValidateCopilotToken ==
  /\ LoadTokens # <<>>
  /\ LoadTokens[1].copilot_token # 0
  /\ ValidateTokens.isValid
  /\ ~ValidateTokens.isExpired

\* loadTokens called by a guard: a stale or empty cache is refilled from the file
LoadTokensRefill ==
  IF ~(cache # <<>> /\ now - lastCacheTime < CacheTimeoutMs) /\ tokenFile # <<>>
    THEN cache' = tokenFile /\ lastCacheTime' = now /\ UNCHANGED tokenFile
    ELSE UNCHANGED storeVars

\* observation: the header is "Bearer " followed by the key that is configured
PresentsKey(authHeader, configured) ==
  /\ authHeader.scheme = "Bearer"
  /\ authHeader.key # 0
  /\ configured = <<authHeader.key>>

\* the guard calls next(): the route handler runs
Proceed(route, authHeader) ==
  [route |-> route, header |-> authHeader, status |-> 0, invoked |-> TRUE,
   validKey |-> FALSE]

\* the guard answers the request itself
Deny(route, authHeader, status) ==
  [route |-> route, header |-> authHeader, status |-> status, invoked |-> FALSE,
   validKey |-> FALSE]

\* authMiddleware({ requireAuth, allowApiKey: true }) on a request
AuthMiddleware(requireAuthOption, route, authHeader) ==
  LET apiKey == ExtractApiKey(authHeader) IN
  IF authHeader # NoHeader /\ Truthy(apiKey) /\ ValidateApiToken(apiKey[1])
    THEN Proceed(route, authHeader)
  ELSE IF authHeader # NoHeader /\ Truthy(apiKey)
    THEN Deny(route, authHeader, 401)
  ELSE IF ValidateCopilotToken
    THEN Proceed(route, authHeader)
  ELSE IF nodeEnvDevelopment /\ ~requireAuthOption
    THEN Proceed(route, authHeader)
  ELSE IF requireAuthOption
    THEN Deny(route, authHeader, 401)
  ELSE Proceed(route, authHeader)

\* a request to a route mounted behind requireAuth()
RequireAuth(authHeader) ==
  /\ authReq' = [AuthMiddleware(TRUE, "authenticated", authHeader)
                   EXCEPT !.validKey = PresentsKey(authHeader, GetApiKey)]
  /\ LoadTokensRefill
  /\ UNCHANGED <<now, nodeEnvDevelopment, adminApiKeyEnv>>
  /\ UNCHANGED <<rlRest, dispatchVars, refreshVars, payloadVars, sse, ts, tr,
                 metricsVars, shutdownVars>>

\* requireAdmin: process.env.ADMIN_API_KEY || tokenManager.getApiKey()
AdminKey == IF adminApiKeyEnv # 0 THEN <<adminApiKeyEnv>> ELSE GetApiKey

\* a request to a route mounted behind requireAdmin()
RequireAdmin(authHeader) ==
  /\ authReq' =
       [(IF nodeEnvDevelopment THEN Proceed("admin", authHeader)
         ELSE IF authHeader # NoHeader /\ ExtractApiKey(authHeader) = AdminKey
           THEN Proceed("admin", authHeader)
         ELSE Deny("admin", authHeader, 403))
        EXCEPT !.validKey = PresentsKey(authHeader, AdminKey)]
  /\ IF ~nodeEnvDevelopment /\ authHeader # NoHeader /\ adminApiKeyEnv = 0
       THEN LoadTokensRefill
       ELSE UNCHANGED storeVars
  /\ UNCHANGED <<now, nodeEnvDevelopment, adminApiKeyEnv>>
  /\ UNCHANGED <<rlRest, dispatchVars, refreshVars, payloadVars, sse, ts, tr,
                 metricsVars, shutdownVars>>

\* rotateApiKey: a newly generated key is stored
RotateApiKey(newApiKey) ==
  /\ SaveTokens([api_key |-> newApiKey])
  /\ UNCHANGED now
  /\ UNCHANGED nonStoreVars

\* POST /auth/regenerate: a newly generated key is stored
Regenerate(newApiKey) ==
  /\ SaveTokens([api_key |-> newApiKey])
  /\ UNCHANGED now
  /\ UNCHANGED nonStoreVars

NoAuthRequest == [route |-> "none", header |-> NoHeader, status |-> 0, invoked |-> FALSE,
                  validKey |-> FALSE]

\* the server in either mode, with or without ADMIN_API_KEY in its environment
AuthInit ==
  /\ nodeEnvDevelopment \in BOOLEAN
  /\ adminApiKeyEnv \in 0..NumApiKeys
  /\ authReq = NoAuthRequest

AuthQuiet ==
  /\ nodeEnvDevelopment = FALSE
  /\ adminApiKeyEnv = 0
  /\ authReq = NoAuthRequest

\* the clock of the guard specification
AuthTick ==
  /\ now + TokenTickMs <= MaxAuthTime
  /\ now' = now + TokenTickMs
  /\ UNCHANGED storeVars
  /\ UNCHANGED nonStoreVars

\* a Copilot token is stored without an expiry or with one a tick ahead
AuthExpiryChoices == {<<>>, <<now + TokenTickMs>>}

AuthNext ==
  \/ \E h \in Headers : RequireAuth(h)
  \/ \E h \in Headers : RequireAdmin(h)
  \/ \E k \in ApiKeys : SetApiKey(k)
  \/ \E t \in TokenValues \ {0}, e \in AuthExpiryChoices : SetCopilotToken(t, e)
  \/ ClearTokens
  \/ AuthTick

\* the operations that store or drop the API key
ApiKeysNext ==
  \/ \E k \in ApiKeys : SetApiKey(k)
  \/ \E k \in ApiKeys : RotateApiKey(k)
  \/ \E k \in ApiKeys : Regenerate(k)
  \/ ClearTokens
  \/ ReadTokenFile
  \/ TokenTick

\* ------------------------------------------------------- MetricsCollector
\* the response statuses recorded, on both sides of the bounds 200 and 400
RecordedStatuses == {199, 200, 399, 400, 500}

\* the metrics object a new MetricsCollector holds, and the one reset() assigns
ZeroMetrics ==
  [total |-> 0, success |-> 0, error |-> 0,
   by_status |-> [st \in RecordedStatuses |-> 0],
   response_times |-> 0, errors_total |-> 0, lastOp |-> "none"]

\* only the 2xx statuses counted as success
IsSuccessStatus2xxOnly(status) == status >= 200 /\ status < 300

\* status >= 200 && status < 400
IsSuccessStatus(status) == status >= 200 /\ status < 400

\* MetricsCollector.recordRequest(method, path, status, responseTime, error?)
RecordRequest(status, withError) ==
  /\ metrics.total < MaxRecorded
  /\ metrics' =
       [metrics EXCEPT
          !.total = @ + 1,
          !.by_status[status] = @ + 1,
          !.success = IF IsSuccessStatus(status) THEN @ + 1 ELSE @,
          !.error = IF IsSuccessStatus(status) THEN @ ELSE @ + 1,
          !.response_times = @ + 1,
          !.errors_total = IF withError THEN @ + 1 ELSE @,
          !.lastOp = "recordRequest"]
  /\ UNCHANGED nonMetricsVars

\* MetricsCollector.reset()
Reset ==
  /\ metrics' = [ZeroMetrics EXCEPT !.lastOp = "reset"]
  /\ UNCHANGED nonMetricsVars

MetricsInit == metrics = ZeroMetrics

MetricsQuiet == metrics = ZeroMetrics

MetricsNext ==
  \/ \E st \in RecordedStatuses, e \in BOOLEAN : RecordRequest(st, e)
  \/ Reset

\* ------------------------------------------------------- GracefulShutdown
HandlerNames == 1..NumHandlers

\* handler.timeout || 3000
HandlerTimeoutDefault == 3000

\* configManager.get("HEALTH_CHECK_TIMEOUT", 5000)
ShutdownTimeout == 5000

\* the timeout option of a registered handler: absent, 0, or longer than the
\* timeout of the whole shutdown
TimeoutChoices == {<<>>, <<0>>, <<6000>>}

\* the process events that call shutdown(signal, exitCode = 0)
ShutdownRequests ==
  {[signal |-> sig, exitCode |-> 0] : sig \in {"SIGTERM", "SIGINT", "SIGUSR2"}}
  \cup
  {[signal |-> sig, exitCode |-> 1] : sig \in {"UNCAUGHT_EXCEPTION", "UNHANDLED_REJECTION"}}

Unregistered == [state |-> "unregistered", timeout |-> <<>>, invoked |-> 0]

\* new GracefulShutdown(): no handler, no server, not shutting down
NotShuttingDown ==
  [isShuttingDown |-> FALSE, server |-> FALSE, pc |-> "up", requests |-> 0,
   exitCode |-> 0, elapsed |-> 0, closeInvoked |-> FALSE, closed |-> "no",
   timerFired |-> FALSE, exited |-> <<>>]

HandlerTimeout(h) ==
  IF h.timeout = <<>> \/ h.timeout[1] = 0 THEN HandlerTimeoutDefault ELSE h.timeout[1]

Settled(h) == h.state \in {"completed", "thrown", "timedOut"}

\* a wait that ends with the first handler that settles
AnySettled(hs) == \E n \in HandlerNames : Settled(hs[n])

\* await Promise.allSettled(handlerPromises)
AllSettled(hs) == \A n \in HandlerNames : hs[n].state # "running"

\* a guard that never sees a shutdown in progress
NeverShuttingDown(g) == FALSE

\* if (this.isShuttingDown)
AlreadyShuttingDown(g) == g.isShuttingDown

\* process.exit(code)
ProcessExit(g, code) == [g EXCEPT !.pc = "exited", !.exited = <<code>>]

\* shutdown once the handlers have settled: the server is closed if one is
\* registered, else the process exits with the requested code
AfterHandlers(g, hs) ==
  IF ~AllSettled(hs) THEN g
  ELSE IF g.server THEN [g EXCEPT !.pc = "closing", !.closeInvoked = TRUE]
  ELSE ProcessExit(g, g.exitCode)

\* register(handler) and onShutdown, called while the server starts
Register(n, timeout) ==
  /\ ~gs.isShuttingDown
  /\ handlers[n].state = "unregistered"
  /\ handlers' = [handlers EXCEPT ![n].state = "registered", ![n].timeout = timeout]
  /\ UNCHANGED gs
  /\ UNCHANGED nonShutdownVars

\* registerServer(server), called once the server listens
RegisterServer ==
  /\ ~gs.isShuttingDown
  /\ ~gs.server
  /\ gs' = [gs EXCEPT !.server = TRUE]
  /\ UNCHANGED handlers
  /\ UNCHANGED nonShutdownVars

\* shutdown(signal, exitCode) up to its first await that waits: a second call
\* exits at once, the first sets the flag, arms the timer and calls every handler
Shutdown(request) ==
  /\ gs.pc # "exited"
  /\ IF AlreadyShuttingDown(gs)
       THEN /\ gs' = ProcessExit([gs EXCEPT !.requests = @ + 1], 1)
            /\ UNCHANGED handlers
       ELSE LET hs == [n \in HandlerNames |->
                        IF handlers[n].state = "unregistered" THEN handlers[n]
                        ELSE [handlers[n] EXCEPT !.state = "running",
                                                 !.invoked = @ + 1]]
                g == [gs EXCEPT !.isShuttingDown = TRUE, !.pc = "handlers",
                                !.requests = @ + 1,
                                !.exitCode = request.exitCode, !.elapsed = 0]
            IN /\ handlers' = hs
               /\ gs' = AfterHandlers(g, hs)
  /\ UNCHANGED nonShutdownVars

\* a handler returns, resolves, throws or rejects
HandlerSettles(n, outcome) ==
  /\ gs.pc = "handlers"
  /\ handlers[n].state = "running"
  /\ handlers' = [handlers EXCEPT ![n].state = outcome]
  /\ gs' = AfterHandlers(gs, handlers')
  /\ UNCHANGED nonShutdownVars

\* the timeout promise of a handler rejects
HandlerTimesOut(n) ==
  /\ gs.pc = "handlers"
  /\ handlers[n].state = "running"
  /\ gs.elapsed >= HandlerTimeout(handlers[n])
  /\ handlers' = [handlers EXCEPT ![n].state = "timedOut"]
  /\ gs' = AfterHandlers(gs, handlers')
  /\ UNCHANGED nonShutdownVars

\* await this.server.close() resolves or rejects
ServerCloseSettles(ok) ==
  /\ gs.pc = "closing"
  /\ gs' = IF ok THEN ProcessExit([gs EXCEPT !.closed = "yes"], gs.exitCode)
                 ELSE ProcessExit([gs EXCEPT !.closed = "failed"], 1)
  /\ UNCHANGED handlers
  /\ UNCHANGED nonShutdownVars

\* a shutdownTimer whose callback reports the timeout and leaves the process running
ShutdownTimerOnlyLogs ==
  /\ gs.pc \in {"handlers", "closing"}
  /\ gs.elapsed >= ShutdownTimeout
  /\ ~gs.timerFired
  /\ gs' = [gs EXCEPT !.timerFired = TRUE]
  /\ UNCHANGED handlers
  /\ UNCHANGED nonShutdownVars

\* the callback of shutdownTimer
ShutdownTimerFires ==
  /\ gs.pc \in {"handlers", "closing"}
  /\ gs.elapsed >= ShutdownTimeout
  /\ gs' = ProcessExit([gs EXCEPT !.timerFired = TRUE], 1)
  /\ UNCHANGED handlers
  /\ UNCHANGED nonShutdownVars

\* time passes during the shutdown, but not past a timer that is due
ShutdownTick ==
  /\ gs.pc \in {"handlers", "closing"}
  /\ gs.elapsed + MsPerSecond <= ShutdownTimeout
  /\ \A n \in HandlerNames :
       handlers[n].state = "running" =>
         gs.elapsed + MsPerSecond <= HandlerTimeout(handlers[n])
  /\ gs' = [gs EXCEPT !.elapsed = @ + MsPerSecond]
  /\ UNCHANGED handlers
  /\ UNCHANGED nonShutdownVars

ShutdownInit ==
  /\ handlers = [n \in HandlerNames |-> Unregistered]
  /\ gs = NotShuttingDown

ShutdownQuiet ==
  /\ handlers = [n \in HandlerNames |-> Unregistered]
  /\ gs = NotShuttingDown

ShutdownNext ==
  \/ \E n \in HandlerNames, t \in TimeoutChoices : Register(n, t)
  \/ RegisterServer
  \/ \E request \in ShutdownRequests : Shutdown(request)
  \/ \E n \in HandlerNames, o \in {"completed", "thrown"} : HandlerSettles(n, o)
  \/ \E n \in HandlerNames : HandlerTimesOut(n)
  \/ \E ok \in BOOLEAN : ServerCloseSettles(ok)
  \/ ShutdownTimerFires
  \/ ShutdownTick

\* -------------------------------------------------------- specifications
RefreshQuiet ==
  /\ bearerExpiresAt = 0
  /\ refresher = [c \in Callers |-> [pc |-> "idle", seen |-> 0, call |-> 0, got |-> 0]]
  /\ refreshCalls = 0

InitRateLimit == RateLimitInit /\ DispatchQuiet /\ StoreInit /\ RefreshQuiet /\ PayloadQuiet /\ StreamInit
  /\ TranslateStreamInit /\ TranslateRequestQuiet /\ AuthQuiet /\ MetricsQuiet /\ ShutdownQuiet

SpecRateLimit == InitRateLimit /\ [][RateLimitNext]_vars

InitDispatch == RateLimitQuiet /\ DispatchInit /\ StoreInit /\ RefreshQuiet /\ PayloadQuiet /\ StreamInit
  /\ TranslateStreamInit /\ TranslateRequestQuiet /\ AuthQuiet /\ MetricsQuiet /\ ShutdownQuiet

SpecDispatch == InitDispatch /\ [][DispatchNext]_vars

InitStore == RateLimitQuiet /\ DispatchQuiet /\ StoreInit /\ RefreshQuiet /\ PayloadQuiet /\ StreamInit
  /\ TranslateStreamInit /\ TranslateRequestQuiet /\ AuthQuiet /\ MetricsQuiet /\ ShutdownQuiet

SpecStore == InitStore /\ [][StoreNext]_vars

InitRefresh == RateLimitQuiet /\ StoreInit /\ RefreshInit /\ PayloadQuiet /\ StreamInit
  /\ TranslateStreamInit /\ TranslateRequestQuiet /\ AuthQuiet /\ MetricsQuiet /\ ShutdownQuiet

SpecRefresh == InitRefresh /\ [][RefreshNext]_vars

InitPayload == RateLimitQuiet /\ PayloadInit /\ StoreInit /\ RefreshQuiet /\ StreamInit
  /\ TranslateStreamInit /\ TranslateRequestQuiet /\ AuthQuiet /\ MetricsQuiet /\ ShutdownQuiet

SpecPayload == InitPayload /\ [][PayloadNext]_vars

InitStream ==
  RateLimitQuiet /\ DispatchQuiet /\ StoreInit /\ RefreshQuiet /\ PayloadQuiet /\ StreamInit
  /\ TranslateStreamInit /\ TranslateRequestQuiet /\ AuthQuiet /\ MetricsQuiet /\ ShutdownQuiet

SpecStream == InitStream /\ [][StreamNext]_vars

InitTranslateStream ==
  RateLimitQuiet /\ DispatchQuiet /\ StoreInit /\ RefreshQuiet /\ PayloadQuiet /\ StreamInit
  /\ TranslateStreamInit /\ TranslateRequestQuiet /\ AuthQuiet /\ MetricsQuiet /\ ShutdownQuiet

SpecTranslateStream == InitTranslateStream /\ [][TranslateStreamNext]_vars

InitTranslateRequest ==
  RateLimitQuiet /\ DispatchQuiet /\ StoreInit /\ RefreshQuiet /\ PayloadQuiet /\ StreamInit
  /\ TranslateStreamInit /\ TranslateRequestInit /\ AuthQuiet /\ MetricsQuiet /\ ShutdownQuiet

SpecTranslateRequest == InitTranslateRequest /\ [][TranslateRequestNext]_vars

InitAuth ==
  RateLimitQuiet /\ DispatchQuiet /\ StoreInit /\ RefreshQuiet /\ PayloadQuiet /\ StreamInit
  /\ TranslateStreamInit /\ TranslateRequestQuiet /\ AuthInit /\ MetricsQuiet /\ ShutdownQuiet

SpecAuth == InitAuth /\ [][AuthNext]_vars

InitApiKeys ==
  RateLimitQuiet /\ DispatchQuiet /\ StoreInit /\ RefreshQuiet /\ PayloadQuiet /\ StreamInit
  /\ TranslateStreamInit /\ TranslateRequestQuiet /\ AuthQuiet /\ MetricsQuiet /\ ShutdownQuiet

SpecApiKeys == InitApiKeys /\ [][ApiKeysNext]_vars

InitMetrics ==
  RateLimitQuiet /\ DispatchQuiet /\ StoreInit /\ RefreshQuiet /\ PayloadQuiet /\ StreamInit
  /\ TranslateStreamInit /\ TranslateRequestQuiet /\ AuthQuiet /\ MetricsInit /\ ShutdownQuiet

SpecMetrics == InitMetrics /\ [][MetricsNext]_vars

InitShutdown ==
  RateLimitQuiet /\ DispatchQuiet /\ StoreInit /\ RefreshQuiet /\ PayloadQuiet /\ StreamInit
  /\ TranslateStreamInit /\ TranslateRequestQuiet /\ AuthQuiet /\ MetricsQuiet
  /\ ShutdownInit

SpecShutdown == InitShutdown /\ [][ShutdownNext]_vars

\* the event loop runs every timer that is due
SpecShutdownFair ==
  /\ InitShutdown
  /\ [][ShutdownNext]_vars
  /\ WF_vars(ShutdownTick)
  /\ WF_vars(ShutdownTimerFires)
  /\ WF_vars(\E n \in HandlerNames : HandlerTimesOut(n))

\* ------------------------------------------------- admission control claims
PacedAtInterval == prevRelease # 0 => lastRelease - prevRelease >= IntervalMs

\* C1: under the wait policy with a positive interval, no two checkRateLimit
\* calls are released to proceed less than the interval apart, whatever the
\* interleaving of the callers.
C1_WaitNeverReleasesCloserThanInterval ==
  (rateLimitWait /\ RateLimitSecondsOrZero > 0) => PacedAtInterval

\* C2: under the reject policy with a positive interval, the check and the
\* stamping are one step (no call is ever suspended), and no two admitted calls
\* are closer together than the interval: a call made less than the interval
\* after the last admitted one is rejected.
C2_RejectNeverAdmitsCloserThanInterval ==
  (~rateLimitWait /\ RateLimitSecondsOrZero > 0) =>
     /\ PacedAtInterval
     /\ \A c \in Callers : rl[c].pc # "sleeping"
     /\ \A c \in Callers :
          (rl[c].pc = "returned" /\ rl[c].seen # 0) =>
             /\ rl[c].at - rl[c].seen >= IntervalMs
             /\ lastRequestTimestamp >= rl[c].at

C2_Witness ==
  /\ ~rateLimitWait
  /\ RateLimitSecondsOrZero > 0
  /\ prevRelease # 0
  /\ \E c \in Callers : rl[c].pc = "returned" /\ rl[c].seen # 0
  /\ \E c \in Callers : rl[c].pc = "thrown" /\ rl[c].at - rl[c].seen < IntervalMs

\* C3: a call made when the time elapsed since the last admitted call is greater
\* than or equal to the interval (equal included) is admitted immediately and
\* stamps its own time as the last-admitted timestamp.
C3_AdmitsWhenElapsedAtLeastInterval ==
  \A c \in Callers :
    (RateLimitSecondsOrZero > 0 /\ rl[c].pc # "idle" /\ rl[c].seen # 0
       /\ rl[c].at - rl[c].seen >= IntervalMs) =>
       /\ rl[c].pc = "returned"
       /\ ~rl[c].waited
       /\ rl[c].releasedAt = rl[c].at
       /\ rl[c].stamp = rl[c].at

\* C4: a call denied under the reject policy fails with a RateLimitError that
\* carries the remaining wait time (interval minus elapsed), and the 429
\* response the client gets carries that time as its retry-after hint.
C4_RejectCarriesRetryAfter ==
  \A c \in Callers :
    (RateLimitSecondsOrZero > 0 /\ rl[c].pc = "thrown") =>
       /\ rl[c].err.name = "RateLimitError"
       /\ rl[c].err.retryAfter = <<IntervalMs - (rl[c].at - rl[c].seen)>>
       /\ ForwardError(rl[c].err).status = 429
       /\ ForwardError(rl[c].err).retryAfterHeader = rl[c].err.retryAfter

\* C5 as stated: under the wait policy a call that arrives before the interval
\* has elapsed proceeds exactly when the remaining interval has passed.
C5_WaitsExactlyTheRemainingInterval ==
  \A c \in Callers :
    (rateLimitWait /\ RateLimitSecondsOrZero > 0 /\ rl[c].waited
       /\ rl[c].at - rl[c].seen < IntervalMs) =>
       rl[c].releasedAt = rl[c].seen + IntervalMs

\* C5 amended: such a call is suspended for the remaining interval rounded up to
\* whole seconds: it proceeds no earlier than the interval after the recorded
\* timestamp, less than a second after that, a whole number of seconds after
\* its check.
C5_WaitsTheRemainingIntervalRoundedUp ==
  \A c \in Callers :
    (rateLimitWait /\ RateLimitSecondsOrZero > 0 /\ rl[c].pc # "idle"
       /\ rl[c].seen # 0 /\ rl[c].at - rl[c].seen < IntervalMs) =>
       /\ rl[c].pc \in {"sleeping", "returned"}
       /\ rl[c].wakeAt >= rl[c].seen + IntervalMs
       /\ rl[c].wakeAt < rl[c].seen + IntervalMs + MsPerSecond
       /\ (rl[c].wakeAt - rl[c].at) % MsPerSecond = 0
       /\ rl[c].pc = "sleeping" => now <= rl[c].wakeAt
       /\ rl[c].pc = "returned" => (rl[c].waited /\ rl[c].releasedAt >= rl[c].wakeAt)

C5_Witness ==
  \E c \in Callers :
    /\ rateLimitWait
    /\ RateLimitSecondsOrZero > 0
    /\ rl[c].pc = "returned"
    /\ rl[c].waited
    /\ rl[c].at - rl[c].seen < IntervalMs
    /\ rl[c].wakeAt > rl[c].seen + IntervalMs
    /\ rl[c].releasedAt = rl[c].wakeAt

\* C6: with no interval configured (unset or 0) every call is admitted at once,
\* never rejected and never delayed, whatever the wait flag.
C6_DisabledAdmitsEverything ==
  RateLimitSecondsOrZero = 0 =>
    \A c \in Callers : rl[c].pc \in {"idle", "returned"} /\ ~rl[c].waited

\* C24: a checkRateLimit call that waited records, when it proceeds, the time of
\* its original check as the last-admitted timestamp, not the time it woke up.
C24_WaiterStampsItsCheckTime ==
  \A c \in Callers :
    (rl[c].pc = "returned" /\ rl[c].waited) => rl[c].stamp = rl[c].at

C24_Witness ==
  \E c \in Callers :
    /\ rl[c].pc = "returned"
    /\ rl[c].waited
    /\ rl[c].releasedAt > rl[c].at
    /\ rl[c].stamp = rl[c].at
    /\ lastRequestTimestamp = rl[c].at

\* C27: no step of checkRateLimit, under either policy, sets the last-admitted
\* timestamp to a value below the one it held.
C27_LastRequestTimestampNeverDecreases ==
  [][lastRequestTimestamp' >= lastRequestTimestamp]_vars

\* ------------------------------------------------------- dispatcher claims
\* C7: every upstream chat-completions call of handleCompletion is preceded, in
\* the same request, by an admission check that admitted the request.
C7_UpstreamCallBehindAdmissionGate ==
  \A r \in Requests : req[r].upstreamCalls > 0 => req[r].admitted

\* C10: a request dispatched while no bearer is held fails with an
\* AuthenticationError, answered 401 authentication_error, and makes no upstream
\* call.
C10_MissingBearerIsAuthenticationError ==
  \A r \in Requests :
    (req[r].dispatched /\ req[r].tokenAtDispatch = 0) =>
       /\ req[r].err.name = "AuthenticationError"
       /\ req[r].response.status = 401
       /\ req[r].response.type = "authentication_error"
       /\ req[r].upstreamCalls = 0

\* C25: for every request handleCompletion dispatched upstream and finished,
\* trackRequest was called exactly once, with success exactly when the upstream
\* call succeeded.
C25_TrackedOncePerUpstreamCall ==
  \A r \in Requests :
    (req[r].pc = "done" /\ req[r].upstreamCalls > 0) =>
       /\ Len(req[r].tracked) = 1
       /\ req[r].tracked[1] = (req[r].upstreamStatus = 200 /\ req[r].err = NoError)

\* ---------------------------------------------------------- metrics claims
SumOver(counts, statuses) ==
  LET RECURSIVE Sum(_)
      Sum(S) == IF S = {} THEN 0
                ELSE LET st == CHOOSE x \in S : TRUE IN counts[st] + Sum(S \ {st})
  IN Sum(statuses)

\* C26: requests.total = requests.success + requests.error in every state; every
\* recorded request counts once in total and once in success (status 200 to 399)
\* or in error (any other status); after reset every counter is zero.
C26_TotalIsSuccessPlusError ==
  /\ metrics.total = metrics.success + metrics.error
  /\ metrics.total = SumOver(metrics.by_status, RecordedStatuses)
  /\ metrics.success = SumOver(metrics.by_status, {200, 399})
  /\ metrics.error = SumOver(metrics.by_status, {199, 400, 500})
  /\ metrics.lastOp = "reset" =>
       /\ metrics.total = 0 /\ metrics.success = 0 /\ metrics.error = 0
       /\ metrics.errors_total = 0 /\ metrics.response_times = 0
       /\ \A st \in RecordedStatuses : metrics.by_status[st] = 0

C26_Witness ==
  /\ metrics.lastOp = "recordRequest"
  /\ metrics.total = 3
  /\ metrics.by_status[399] = 1
  /\ metrics.by_status[400] = 1
  /\ metrics.by_status[199] = 1
  /\ metrics.success = 1
  /\ metrics.error = 2

\* --------------------------------------------------------- shutdown claims
\* C28: the server's close() is invoked only once every registered handler has
\* settled (completed, thrown or timed out); once a handler has thrown or timed
\* out every registered handler has still been invoked, and when the last one
\* settles the registered server is closed; no handler is invoked before the
\* shutdown starts.
C28_ServerClosedAfterHandlersSettle ==
  /\ gs.closeInvoked =>
       \A n \in HandlerNames :
         handlers[n].state # "unregistered" => Settled(handlers[n])
  /\ (\E n \in HandlerNames : handlers[n].state \in {"thrown", "timedOut"}) =>
       /\ \A n \in HandlerNames :
            handlers[n].state # "unregistered" => handlers[n].invoked = 1
       /\ (gs.server /\ \A n \in HandlerNames : handlers[n].state # "running")
            => gs.closeInvoked
  /\ ~gs.isShuttingDown =>
       \A n \in HandlerNames :
         handlers[n].invoked = 0 /\ handlers[n].state \in {"unregistered", "registered"}

C28_Witness ==
  /\ gs.closeInvoked
  /\ handlers[1].state = "thrown"
  /\ handlers[2].state = "timedOut"
  /\ gs.closed = "yes"

\* C29: once a shutdown has started the flag stays set, no handler is invoked a
\* second time, and a second shutdown request makes the process exit with
\* code 1.
C29_ShutdownRunsAtMostOnce ==
  /\ gs.pc # "up" => gs.isShuttingDown
  /\ gs.requests > 0 => gs.isShuttingDown
  /\ \A n \in HandlerNames : handlers[n].invoked <= 1
  /\ gs.requests > 1 => (gs.requests = 2 /\ gs.exited = <<1>>)

C29_Witness ==
  /\ gs.requests = 2
  /\ gs.exitCode = 0
  /\ gs.exited = <<1>>
  /\ ~gs.timerFired
  /\ \E n \in HandlerNames : handlers[n].state = "running" /\ handlers[n].invoked = 1

\* the exit code of a shutdown that has exited
ExitCodeAsRequested ==
  gs.exited # <<>> =>
    /\ (/\ gs.requests = 1
        /\ ~gs.timerFired
        /\ gs.closed # "failed") =>
          /\ gs.exited = <<gs.exitCode>>
          /\ \A n \in HandlerNames : handlers[n].state # "running"
          /\ gs.server => gs.closed = "yes"
    /\ (gs.timerFired \/ gs.closed = "failed") => gs.exited = <<1>>

\* C30: every shutdown that has started ends with the exit of the process; the
\* exit code is the requested one when the handlers settled and the server
\* closed before the shutdown timer fired, and 1 when the timer fired first or
\* closing the server failed.
C30_StartedShutdownExits ==
  /\ []ExitCodeAsRequested
  /\ (gs.isShuttingDown ~> gs.exited # <<>>)

C30_Witness ==
  /\ gs.exited = <<1>>
  /\ gs.exitCode = 0
  /\ gs.timerFired
  /\ gs.requests = 1
  /\ gs.closeInvoked
  /\ gs.closed = "no"

\* ------------------------------------------------------ token store claims
\* C9: needsRefresh() is true whenever a credential is stored and its remaining
\* lifetime is below the 60 second margin, and false whenever the remaining
\* lifetime is at or above the margin.
C9_NeedsRefreshIffBelowMargin ==
  LET loaded == LoadTokens IN
  (/\ loaded # <<>>
   /\ loaded[1].copilot_token # 0
   /\ loaded[1].expires_at # <<>>
   /\ loaded[1].expires_at[1] - now >= 0) =>
     (NeedsRefresh <=> loaded[1].expires_at[1] - now < RefreshMarginMs)

C11_OneUpstreamCallStatusForwarded ==
  \A r \in Requests :
    /\ req[r].upstreamCalls <= 1
    /\ (req[r].dispatched /\ req[r].tokenAtDispatch # 0) => req[r].upstreamCalls = 1
    /\ (req[r].pc = "done" /\ req[r].upstreamStatus \notin {0, 200}) =>
         /\ req[r].err.name = "HTTPError"
         /\ req[r].response.status = req[r].upstreamStatus

C11_Witness ==
  \E r \in Requests :
    /\ req[r].pc = "done"
    /\ req[r].upstreamCalls = 1
    /\ req[r].upstreamStatus = 401
    /\ req[r].response.status = 401

\* ---------------------------------------------------------- payload claims
\* C12: a request whose model is missing, or whose messages field is missing,
\* not an array or an empty array, is answered 400 and no upstream request is
\* made for it (checked on a server that holds a bearer).
C12_InvalidPayloadRejectedBeforeUpstream ==
  (/\ copilotToken # 0
   /\ call.pc \in {"fetching", "done"}
   /\ \/ call.payload.model = <<>>
      \/ call.payload.messages.kind # "array"
      \/ call.payload.messages.list = <<>>)
  => (call.upstream = <<>> /\ call.response.status = 400)

C14_NonEmptyPreamblePrependedToSystem ==
  (/\ call.upstream # <<>>
   /\ call.payload.agent_prompt # <<>>
   /\ call.payload.agent_prompt[1] # <<>>
   /\ HasSystemMessage(call.payload.messages.list))
  => LET i == FirstSystemIndex(call.payload.messages.list)
         S == call.payload.messages.list[i].content
     IN S.isString =>
          call.upstream[1].messages[i].content =
            StringContent(call.payload.agent_prompt[1] \o <<"\n", "\n">> \o S.text)

\* C14: with an agent preamble P that is not blank and a system message in the
\* message list, the first system message is sent upstream with content P, two
\* newlines, S, where S is its string content or the JSON text of its content
\* parts; a blank preamble leaves the message list as it was.
C14_NonBlankPreamblePrependedToSystem ==
  (/\ call.upstream # <<>>
   /\ call.payload.agent_prompt # <<>>
   /\ HasSystemMessage(call.payload.messages.list))
  => LET P == call.payload.agent_prompt[1]
         i == FirstSystemIndex(call.payload.messages.list)
         S == call.payload.messages.list[i].content
     IN IF Trim(P) = <<>>
          THEN call.upstream[1].messages = call.payload.messages.list
          ELSE /\ call.upstream[1].messages[i].role = "system"
               /\ call.upstream[1].messages[i].content =
                    StringContent(P \o <<"\n", "\n">>
                                  \o (IF S.isString THEN S.text ELSE JsonStringify(S)))

C14_Witness ==
  /\ call.upstream # <<>>
  /\ call.payload.agent_prompt = <<<<"P">>>>
  /\ Len(call.payload.messages.list) = 2
  /\ call.payload.messages.list[2] = [role |-> "system", content |-> StringContent(<<"S">>)]
  /\ call.payload.messages.list[1].role = "user"
  /\ call.upstream[1].messages[2].content = StringContent(<<"P", "\n", "\n", "S">>)

\* C15: with an agent preamble that is not blank, the message list sent
\* upstream begins with a system message whose content starts with the preamble,
\* and the messages after it are the other original messages, unchanged and in
\* their original order (all of them when the request had no system message).
C15_PreambleIsLeadingSystemMessage ==
  (call.upstream # <<>> /\ HasAgentPrompt(call.payload))
  => LET P == call.payload.agent_prompt[1]
         orig == call.payload.messages.list
         sent == call.upstream[1].messages
         others ==
           IF HasSystemMessage(orig)
             THEN SubSeq(orig, 1, FirstSystemIndex(orig) - 1)
                  \o SubSeq(orig, FirstSystemIndex(orig) + 1, Len(orig))
             ELSE orig
     IN /\ sent # <<>>
        /\ sent[1].role = "system"
        /\ Len(sent[1].content.text) >= Len(P)
        /\ SubSeq(sent[1].content.text, 1, Len(P)) = P
        /\ Tail(sent) = others

\* C16 as stated: the X-Initiator header of the upstream call is "agent" when a
\* message of the request has role assistant or tool, and "user" when all its
\* messages have role user.
C16_InitiatorFollowsMessageRoles ==
  call.upstream # <<>> =>
    LET orig == call.payload.messages.list IN
    /\ (\E i \in 1..Len(orig) : orig[i].role \in {"assistant", "tool"})
         => call.upstream[1].initiator = "agent"
    /\ (orig # <<>> /\ \A i \in 1..Len(orig) : orig[i].role = "user")
         => call.upstream[1].initiator = "user"

\* C16: the X-Initiator header of the upstream call is "agent" when a message
\* of the request has role assistant or tool or the request carries an agent
\* preamble that is not blank, and "user" otherwise.
C16_InitiatorFollowsRolesAndPreamble ==
  call.upstream # <<>> =>
    LET orig == call.payload.messages.list
        agent == \/ \E i \in 1..Len(orig) : orig[i].role \in {"assistant", "tool"}
                 \/ (call.payload.agent_prompt # <<>>
                     /\ Trim(call.payload.agent_prompt[1]) # <<>>)
    IN call.upstream[1].initiator = IF agent THEN "agent" ELSE "user"

C16_Witness ==
  /\ call.upstream # <<>>
  /\ Len(call.payload.messages.list) = 2
  /\ \A i \in 1..2 : call.payload.messages.list[i].role = "user"
  /\ call.payload.agent_prompt = <<<<"P">>>>
  /\ call.upstream[1].initiator = "agent"

\* -------------------------------------------------------- streaming claims
\* C17: while the client is connected the events delivered to it are the first
\* events of the upstream stream, in their order, and the gateway consumes
\* upstream events only as the client receives them: beyond the delivered
\* events it holds at most the event being written and the one waiting in the
\* response body stream, never the stream in full.
C17_EventDeliveredBeforeNextIsConsumed ==
  sse.clientOpen =>
    /\ sse.consumed <= Len(sse.delivered) + 2
    /\ sse.delivered = SubSeq(EventsOf(sse.total), 1, Len(sse.delivered))

\* C18: once the client has closed its connection the upstream stream is no
\* longer drained: at most the event whose read was in progress is consumed.
C18_ClientCloseStopsDraining ==
  ~sse.clientOpen => sse.consumed <= sse.consumedAtClose + 1

\* ------------------------------------------------------ translation claims
\* C19: in the event stream of a translation that has ended, by a finish signal
\* or by an early end of the upstream sequence, every content block that was
\* opened has exactly one content_block_stop, the stops come in ascending index
\* order, and after the last of them come one message_delta and one
\* message_stop, which end the stream; before the end no block is closed.
C19_OpenedBlocksClosedOnceInOrder ==
  LET out == ts.out
      At(type) == {p \in 1..Len(out) : out[p].type = type}
      StopsOf(i) == {p \in At("content_block_stop") : out[p].index = i}
      opened == {out[p].index : p \in At("content_block_start")}
  IN IF ts.pc = "ended"
       THEN /\ \A i \in opened : Cardinality(StopsOf(i)) = 1
            /\ \A p \in At("content_block_stop") : out[p].index \in opened
            /\ \A p, q \in At("content_block_stop") : p < q => out[p].index < out[q].index
            /\ At("message_delta") = {Len(out) - 1}
            /\ At("message_stop") = {Len(out)}
            /\ \A p \in At("content_block_stop"), q \in At("content_block_start") : q < p
       ELSE At("content_block_stop") \cup At("message_delta") \cup At("message_stop") = {}

C19_Witness ==
  /\ ts.pc = "ended"
  /\ ts.ending = "early"
  /\ Len(ts.out) = 10
  /\ ts.out[2] = Event("content_block_start", 2, "tool_use")
  /\ ts.out[4] = Event("content_block_start", 0, "text")
  /\ ts.out[7] = Event("content_block_stop", 0, "none")
  /\ ts.out[8] = Event("content_block_stop", 2, "none")

\* C20: an assistant message whose content parts are a thinking part followed
\* by a text part is translated to one string that holds the thinking text and,
\* strictly after it, the visible text.
C20_ThinkingBeforeTextInOneString ==
  (/\ tr.pc = "translated"
   /\ Len(tr.parts) = 2
   /\ tr.parts[1].type = "thinking"
   /\ tr.parts[2].type = "text")
  => /\ Len(tr.message.content) = 1
     /\ LET content == tr.message.content[1]
            A == tr.parts[1].text
            B == tr.parts[2].text
        IN /\ SubSeq(content, 1, Len(A)) = A
           /\ SubSeq(content, Len(content) - Len(B) + 1, Len(content)) = B
           /\ Len(content) >= Len(A) + Len(B)

C20_Witness ==
  /\ tr.pc = "translated"
  /\ tr.parts = <<[type |-> "thinking", text |-> <<"A">>], [type |-> "text", text |-> <<"B">>]>>
  /\ tr.message.content = <<<<"A", "\n", "\n", "B">>>>

\* -------------------------------------------------- authentication claims
\* C21: on a route behind requireAuth a request without an Authorization header,
\* or with a Bearer key that is not the stored API key, is answered 401 and its
\* handler is not invoked, whatever the token store holds.
C21_UnauthenticatedRequestGets401 ==
  (/\ authReq.route = "authenticated"
   /\ \/ authReq.header = NoHeader
      \/ (authReq.header.scheme = "Bearer" /\ authReq.header.key # 0
          /\ ~authReq.validKey))
  => (authReq.status = 401 /\ ~authReq.invoked)

C23_AdminOnlyWithAdminKey ==
  (authReq.route = "admin" /\ ~nodeEnvDevelopment)
  => IF authReq.validKey
       THEN authReq.invoked
       ELSE authReq.status = 403 /\ ~authReq.invoked

====
